---- MODULE Spec2Model ----
(***************************************************************************)
(* The IPPO training loop of JaxMARL_Walkthrough.ipynb (make_train and the *)
(* helpers batchify / unbatchify), as a state machine.                     *)
(*                                                                         *)
(* Arrays are modelled as records [shape, data] with the data in row-major *)
(* order, so that reshape, stack, squeeze and indexing do what jax.numpy   *)
(* does to the shape as well as to the elements.  Real numbers are         *)
(* fixed-point integers in units of 1/SCALE.  A pseudo-random key is the   *)
(* path of split indices that leads to it from the seed.                   *)
(***************************************************************************)
EXTENDS Integers, Sequences, FiniteSets, TLC

VARIABLES
    call,         \* pure-function harness: the function applied and its inputs
    ret,          \* pure-function harness: its result (ret.done = FALSE before)
    config,       \* the config dictionary after make_train
    pc,           \* phase of train(): INIT, COLLECTING, ESTIMATING, UPDATING, DONE, FAILED
    runner_state, \* (train_state, env_state, last_obs, rng)
    traj_batch,   \* the Transitions recorded so far in this iteration
    estimate,     \* last_val, advantages and targets of this iteration
    update_state, \* position in the update: iteration, epoch, minibatches, next minibatch
    key_log,      \* history: every key consumed, in order, with the operation
    step_log,     \* history: what each _env_step of this iteration saw and got
    grad_log,     \* history: the gradient steps of this iteration
    world,        \* the outcomes the collaborators (environment, sampler, shuffle) can produce
    memo,         \* outcomes already drawn per key (recorded runs only)
    hist          \* recorded runs: trajectories and parameters each run produced

harnessVars == <<call, ret>>
trainVars == <<config, pc, runner_state, traj_batch, estimate, update_state,
               key_log, step_log, grad_log, world, memo, hist>>
vars == <<call, ret, config, pc, runner_state, traj_batch, estimate, update_state,
          key_log, step_log, grad_log, world, memo, hist>>

(***************************************************************************)
(* Bounds of the model.                                                    *)
(***************************************************************************)
\* batchify/unbatchify inputs hold at most this many elements
MaxCells == 6
\* trajectories handed to _calculate_gae hold at most this many (step, actor) cells
MaxGaeCells == 4
\* the configurations of train(): NUM_ENVS, NUM_STEPS, NUM_UPDATES,
\* UPDATE_EPOCHS and NUM_MINIBATCHES range from 1 to these
MaxEnvs == 2
MaxSteps == 2
MaxUpdates == 2
MaxEpochs == 2
MaxMinibatches == 3
\* a rollout collection checked against every environment behaviour steps
\* the environment instances at most this many times in all
MaxRollout == 4

\* largest batch (time steps * actors) of a shuffle on its own
MaxBatch == 4

\* largest number of environments of a dictionary whose keys are varied
MaxKeyEnvs == 2

\* largest probability ratio and largest absolute advantage, in tenths
MaxRatioTenths == 25
MaxAdvTenths == 20

\* environment steps (rollout length * iterations) of a run that is made twice
MaxRunSteps == 2

(***************************************************************************)
(* Configuration constants and fixed-point arithmetic.                     *)
(***************************************************************************)
\* the fixed-point unit: 1.0 is SCALE, so 0.99 * 0.95 = 0.9405 is exact
SCALE == 10000
GAMMA == 9900
GAE_LAMBDA == 9500
Half == SCALE \div 2

\* the product of two fixed-point numbers, rounded down
Mul(a, b) == (a * b) \div SCALE

\* the harness before the function has been applied
NoRet == [done |-> FALSE]

\* train() is not running (the pure-function checks)
TrainIdle ==
    /\ config = <<>>
    /\ pc = "IDLE"
    /\ runner_state = <<>>
    /\ traj_batch = <<>>
    /\ estimate = <<>>
    /\ update_state = <<>>
    /\ key_log = <<>>
    /\ step_log = <<>>
    /\ grad_log = <<>>
    /\ world = <<>>
    /\ memo = <<>>
    /\ hist = <<>>

(***************************************************************************)
(* jax.numpy arrays.                                                       *)
(***************************************************************************)
RECURSIVE Prod(_)
Prod(s) == IF s = <<>> THEN 1 ELSE Head(s) * Prod(Tail(s))

RECURSIVE Concat(_)
Concat(ss) == IF ss = <<>> THEN <<>> ELSE Head(ss) \o Concat(Tail(ss))

Range(s) == {s[k] : k \in DOMAIN s}

Arr(shape, data) == [shape |-> shape, data |-> data]

\* what a failed reshape/stack/index (a shape error) and a failed lookup
\* (KeyError) yield
SHAPE_ERR == Arr(<<-1>>, <<>>)
KEY_ERR == Arr(<<-2>>, <<>>)
IsErr(x) == x = SHAPE_ERR \/ x = KEY_ERR

\* x.reshape(shape): at most one entry of shape is -1 and is inferred
reshape(x, shape) ==
    LET n == Len(x.data)
        holes == {k \in DOMAIN shape : shape[k] = -1}
        known == Prod([k \in DOMAIN shape |-> IF shape[k] = -1 THEN 1 ELSE shape[k]])
        full == [k \in DOMAIN shape |->
                    IF shape[k] = -1 THEN n \div known ELSE shape[k]]
    IN  IF IsErr(x) THEN x
        ELSE IF Cardinality(holes) > 1 \/ known = 0 \/ Prod(full) # n THEN SHAPE_ERR
        ELSE Arr(full, x.data)

\* jnp.stack(xs): a new leading axis; every element must have the same shape
stack(xs) ==
    IF \E k \in DOMAIN xs : IsErr(xs[k]) THEN xs[CHOOSE k \in DOMAIN xs : IsErr(xs[k])]
    ELSE IF xs = <<>> \/ \E k \in DOMAIN xs : xs[k].shape # xs[1].shape THEN SHAPE_ERR
    ELSE Arr(<<Len(xs)>> \o xs[1].shape, Concat([k \in DOMAIN xs |-> xs[k].data]))

\* x[i] for a 0-based index i into the leading axis
Index0(x, i) ==
    LET rest == Tail(x.shape)
        m == Prod(rest)
    IN  IF IsErr(x) THEN x
        ELSE IF x.shape = <<>> \/ i < 0 \/ i >= x.shape[1] THEN SHAPE_ERR
        ELSE Arr(rest, SubSeq(x.data, i * m + 1, (i + 1) * m))

\* x.flatten()
flatten(x) == IF IsErr(x) THEN x ELSE Arr(<<Len(x.data)>>, x.data)

\* x.squeeze(): every axis of length 1 is dropped
squeeze(x) == IF IsErr(x) THEN x ELSE Arr(SelectSeq(x.shape, LAMBDA d : d # 1), x.data)

(***************************************************************************)
(* The Batch Adapter.                                                      *)
(***************************************************************************)
\* a dictionary whose key set differs from the agent list is rejected
batchify_exact_keys(x, agent_list, num_actors) ==
    IF DOMAIN x # Range(agent_list) THEN KEY_ERR
    ELSE reshape(stack([k \in DOMAIN agent_list |-> x[agent_list[k]]]),
                 <<num_actors, -1>>)

\* the agents stacked last to first
batchify_agents_reversed(x, agent_list, num_actors) ==
    IF \E k \in DOMAIN agent_list : agent_list[k] \notin DOMAIN x THEN KEY_ERR
    ELSE reshape(stack([k \in DOMAIN agent_list |->
                           x[agent_list[Len(agent_list) + 1 - k]]]),
                 <<num_actors, -1>>)

\* batchify, lines 344-346
batchify(x, agent_list, num_actors) ==
    IF \E k \in DOMAIN agent_list : agent_list[k] \notin DOMAIN x THEN KEY_ERR
    ELSE reshape(stack([k \in DOMAIN agent_list |-> x[agent_list[k]]]),
                 <<num_actors, -1>>)

\* unbatchify with the agent and environment axes exchanged
unbatchify_env_major(x, agent_list, num_envs, num_actors) ==
    LET y == reshape(x, <<num_envs, num_actors, -1>>)
        last(a) == CHOOSE k \in DOMAIN agent_list :
                      /\ agent_list[k] = a
                      /\ \A j \in DOMAIN agent_list : agent_list[j] = a => j <= k
    IN  [a \in Range(agent_list) |-> IF IsErr(y) THEN y ELSE Index0(y, last(a) - 1)]

\* the dict comprehension {a: x[i] for i, a in enumerate(agent_list)}: a later
\* entry of agent_list overwrites an earlier one of the same name
unbatchify(x, agent_list, num_envs, num_actors) ==
    LET y == reshape(x, <<num_actors, num_envs, -1>>)
        last(a) == CHOOSE k \in DOMAIN agent_list :
                      /\ agent_list[k] = a
                      /\ \A j \in DOMAIN agent_list : agent_list[j] = a => j <= k
    IN  [a \in Range(agent_list) |-> IF IsErr(y) THEN y ELSE Index0(y, last(a) - 1)]

(***************************************************************************)
(* The Advantage Estimator.  A trajectory is the sequence over time of     *)
(* Transitions, each field an array over the actor slots; lax.scan with    *)
(* reverse=True feeds them last to first and keeps the outputs in place.   *)
(***************************************************************************)
\* the carry is forwarded unchanged: next_value stays the bootstrap value
get_advantages_stale_next(gae_and_next_value, transition) ==
    LET gae == gae_and_next_value[1]
        next_value == gae_and_next_value[2]
        done == transition.done.data
        value == transition.value.data
        reward == transition.reward.data
        delta == [j \in DOMAIN value |->
                    reward[j] + Mul(GAMMA, next_value.data[j]) * (1 - done[j]) - value[j]]
        new == Arr(gae.shape,
                   [j \in DOMAIN value |->
                      delta[j] + Mul(Mul(GAMMA, GAE_LAMBDA) * (1 - done[j]), gae.data[j])])
    IN  <<<<new, next_value>>, new>>

\* done masks the bootstrap value but not the advantage carried from later steps
get_advantages_gae_unmasked(gae_and_next_value, transition) ==
    LET gae == gae_and_next_value[1]
        next_value == gae_and_next_value[2]
        done == transition.done.data
        value == transition.value.data
        reward == transition.reward.data
        delta == [j \in DOMAIN value |->
                    reward[j] + Mul(GAMMA, next_value.data[j]) * (1 - done[j]) - value[j]]
        new == Arr(gae.shape,
                   [j \in DOMAIN value |->
                      delta[j] + Mul(Mul(GAMMA, GAE_LAMBDA), gae.data[j])])
    IN  <<<<new, transition.value>>, new>>

\* _get_advantages, lines 447-459
get_advantages(gae_and_next_value, transition) ==
    LET gae == gae_and_next_value[1]
        next_value == gae_and_next_value[2]
        done == transition.done.data
        value == transition.value.data
        reward == transition.reward.data
        delta == [j \in DOMAIN value |->
                    reward[j] + Mul(GAMMA, next_value.data[j]) * (1 - done[j]) - value[j]]
        new == Arr(gae.shape,
                   [j \in DOMAIN value |->
                      delta[j] + Mul(Mul(GAMMA, GAE_LAMBDA) * (1 - done[j]), gae.data[j])])
    IN  <<<<new, transition.value>>, new>>

\* jax.lax.scan(_get_advantages, init, xs, reverse=True): <<final carry, ys>>
RECURSIVE scan_get_advantages(_, _)
scan_get_advantages(init, xs) ==
    IF xs = <<>> THEN <<init, <<>>>>
    ELSE LET r == get_advantages(init, xs[Len(xs)])
             rest == scan_get_advantages(r[1], SubSeq(xs, 1, Len(xs) - 1))
         IN  <<rest[1], Append(rest[2], r[2])>>

zeros_like(x) == Arr(x.shape, [j \in DOMAIN x.data |-> 0])

\* <<advantages, targets>>, each a sequence over time of arrays over the actors
calculate_gae(traj, last_val) ==
    LET advantages == scan_get_advantages(<<zeros_like(last_val), last_val>>, traj)[2]
    IN  <<advantages,
          [t \in DOMAIN traj |->
             Arr(advantages[t].shape,
                 [j \in DOMAIN advantages[t].data |->
                    advantages[t].data[j] + traj[t].value.data[j]])]>>

(***************************************************************************)
(* Pseudo-random keys.  A key is the path of split indices from the seed;  *)
(* jax.random.split(key, n) yields the n children of key.  A stochastic    *)
(* operation is a function of its key: in a recorded run its outcome is    *)
(* drawn once per key and kept in memo.                                    *)
(***************************************************************************)
SEED == 0
PRNGKey(seed) == <<seed>>
split(key, n) == [i \in 1..n |-> Append(key, i)]

\* the outcomes a stochastic operation with outcome set S can have under key
Outcomes(key, S) ==
    IF \E m \in Range(memo) : m.key = key
    THEN {(CHOOSE m \in Range(memo) : m.key = key).outcome}
    ELSE S

Consumed(key, op) == [key |-> key, op |-> op]

(***************************************************************************)
(* The environment (jaxmarl.make + LogWrapper), a stand-in for the         *)
(* collaborator: two agents, a small state, any done pattern at any step.  *)
(***************************************************************************)
agents == <<"agent_0", "agent_1">>
num_agents == Len(agents)
AgentIndex(a) == CHOOSE k \in DOMAIN agents : agents[k] = a

EnvStates == 0..2
ResetStates == {0, 1}
\* who a step reports done: nobody, the first agent only, or everybody ("__all__")
DonePatterns == {"none", "first", "all"}

Scalar(v) == Arr(<<>>, <<v>>)

env_obs(s) == [a \in Range(agents) |-> Arr(<<1>>, <<s * num_agents + AgentIndex(a) - 1>>)]

\* env.reset(key) -> (obs, state)
env_reset(outcome) == [obs |-> env_obs(outcome), state |-> outcome]

\* env.step(key, state, actions) -> (obs, state, reward, done, info); the
\* wrapper resets the instance itself when the episode is over
env_step(outcome, s, actions) ==
    LET all == outcome = "all"
        next == IF all THEN 0
                ELSE (s + 1 + actions[agents[1]].data[1]) % Cardinality(EnvStates)
    IN  [obs |-> env_obs(next),
         state |-> next,
         reward |-> [a \in Range(agents) |->
                       Scalar(((s + actions[a].data[1] + AgentIndex(a)) % 2) * SCALE)],
         done |-> [k \in Range(agents) \cup {"__all__"} |->
                     Scalar(IF all \/ (outcome = "first" /\ k = agents[1]) THEN 1 ELSE 0)],
         info |-> Arr(<<num_agents>>, [i \in 1..num_agents |-> IF all THEN 1 ELSE 0])]

\* jax.vmap over the instances: the outputs stacked along a new leading axis
vmap_stack(outs, field, keys) ==
    [k \in keys |-> stack([e \in DOMAIN outs |-> outs[e][field][k]])]

(***************************************************************************)
(* The policy/value network (ActorCritic) and the optimizer, stand-ins:    *)
(* deterministic functions of the parameters and the observation rows.     *)
(***************************************************************************)
Actions == {0, 1}
SampleOutcomes == {0, 1}
InitParams == 0

Row(x, j) == Index0(x, j - 1).data
Rows(x) == 1..x.shape[1]

\* network.apply(params, obs_batch)[1]
network_value(params, obs_batch) ==
    Arr(<<obs_batch.shape[1]>>,
        [j \in Rows(obs_batch) |-> ((params + Row(obs_batch, j)[1]) % 2) * Half])

\* pi.sample(seed=key)
pi_sample(params, obs_batch, outcome) ==
    Arr(<<obs_batch.shape[1]>>,
        [j \in Rows(obs_batch) |->
            (outcome + params + Row(obs_batch, j)[1] + j) % Cardinality(Actions)])

\* pi.log_prob(action)
pi_log_prob(params, obs_batch, action) ==
    Arr(<<obs_batch.shape[1]>>,
        [j \in Rows(obs_batch) |->
            0 - (1 + ((params + Row(obs_batch, j)[1] + action.data[j]) % 2)) * Half])

(***************************************************************************)
(* make_train: the derived configuration.                                  *)
(***************************************************************************)
make_train(c) ==
    LET NUM_ACTORS == num_agents * c.NUM_ENVS
    IN  [NUM_ENVS |-> c.NUM_ENVS,
         NUM_STEPS |-> c.NUM_STEPS,
         TOTAL_TIMESTEPS |-> c.TOTAL_TIMESTEPS,
         UPDATE_EPOCHS |-> c.UPDATE_EPOCHS,
         NUM_MINIBATCHES |-> c.NUM_MINIBATCHES,
         NUM_ACTORS |-> NUM_ACTORS,
         NUM_UPDATES |-> (c.TOTAL_TIMESTEPS \div c.NUM_STEPS) \div c.NUM_ENVS,
         MINIBATCH_SIZE |-> (NUM_ACTORS * c.NUM_STEPS) \div c.NUM_MINIBATCHES]

\* the configurations tried: every one whose run has 1..MaxUpdates iterations
Configs ==
    {c \in [NUM_ENVS : 1..MaxEnvs, NUM_STEPS : 1..MaxSteps,
            TOTAL_TIMESTEPS : 1..(MaxUpdates * MaxSteps * MaxEnvs + 1),
            UPDATE_EPOCHS : 1..MaxEpochs, NUM_MINIBATCHES : 1..MaxMinibatches] :
        /\ (c.TOTAL_TIMESTEPS \div c.NUM_STEPS) \div c.NUM_ENVS \in 1..MaxUpdates
        /\ c.TOTAL_TIMESTEPS % (c.NUM_STEPS * c.NUM_ENVS) \in {0, 1}}

\* the assertion left out
assert_batch_size_skipped(c, batch_size) == TRUE

\* the assertion of _update_epoch, lines 525-527
assert_batch_size(c, batch_size) == batch_size = c.NUM_STEPS * c.NUM_ACTORS

(***************************************************************************)
(* train(rng).                                                             *)
(***************************************************************************)
NoUpdate == [epoch |-> 0, minibatches |-> <<>>, mb |-> 0]

Record(log, entries) == IF log.on THEN [log EXCEPT !.e = @ \o entries] ELSE log

InitTrain(cs, ws, recorded) ==
    /\ call = [fn |-> "train"]
    /\ ret = NoRet
    /\ config \in {make_train(c) : c \in cs}
    /\ pc = "INIT"
    /\ runner_state = [train_state |-> [params |-> InitParams, step |-> 0],
                       env_state |-> <<>>, last_obs |-> <<>>,
                       rng |-> split(PRNGKey(SEED), 1)[1]]
    /\ traj_batch = <<>>
    /\ estimate = <<>>
    /\ update_state = [update |-> 0] @@ NoUpdate
    /\ key_log = <<>>
    /\ step_log = <<>>
    /\ grad_log = <<>>
    /\ world \in ws
    /\ memo = <<>>
    /\ hist = [on |-> recorded, run |-> 1, e |-> <<>>, first |-> <<>>]

\* train_jit = jax.jit(...) (line 601): train is traced before anything runs,
\* and the assertion of _update_epoch (lines 525-527), which reads only the
\* configuration, is evaluated while tracing
TraceFailure ==
    /\ pc = "INIT"
    /\ ~assert_batch_size(config, config.MINIBATCH_SIZE * config.NUM_MINIBATCHES)
    /\ pc' = "FAILED"
    /\ UNCHANGED <<call, ret, config, runner_state, traj_batch, estimate, update_state,
                   key_log, step_log, grad_log, world, memo, hist>>

\* lines 370-396 and 559-560: network and environment initialisation
TrainInit ==
    /\ pc = "INIT"
    /\ LET rng0 == runner_state.rng
           s1 == split(rng0, 2)
           s2 == split(s1[1], 2)
           reset_rng == split(s2[2], config.NUM_ENVS)
           s3 == split(s2[1], 2)
       IN  \E outs \in [1..config.NUM_ENVS -> world.reset] :
             /\ \A e \in 1..config.NUM_ENVS : outs[e] \in Outcomes(reset_rng[e], world.reset)
             /\ LET r == [e \in 1..config.NUM_ENVS |-> env_reset(outs[e])]
                IN  runner_state' =
                      [train_state |-> [params |-> InitParams, step |-> 0],
                       env_state |-> [e \in 1..config.NUM_ENVS |-> r[e].state],
                       last_obs |-> vmap_stack(r, "obs", Range(agents)),
                       rng |-> s3[2]]
             /\ key_log' = key_log \o
                   <<Consumed(rng0, "split"), Consumed(s1[2], "network.init"),
                     Consumed(s1[1], "split"), Consumed(s2[2], "split")>>
                   \o [e \in 1..config.NUM_ENVS |-> Consumed(reset_rng[e], "env.reset")]
                   \o <<Consumed(s2[1], "split")>>
             /\ memo' = IF hist.on
                        THEN memo \o [e \in 1..config.NUM_ENVS |->
                                        [key |-> reset_rng[e], outcome |-> outs[e]]]
                        ELSE memo
    /\ pc' = "COLLECTING"
    /\ UNCHANGED <<call, ret, config, traj_batch, estimate, update_state,
                   step_log, grad_log, world, hist>>

\* the second split of _env_step is left out: the sampling key is used again
env_step_keys_reused(rng, num_envs) ==
    LET s1 == split(rng, 2)
    IN  [carry |-> s1[1], sample |-> s1[2], step |-> split(s1[2], num_envs),
         splits |-> <<rng, s1[2]>>]

\* the keys of one _env_step (lines 405 and 417-418): the key carried on, the
\* sampling key, the per-instance step keys, and the keys that were split
env_step_keys(rng, num_envs) ==
    LET s1 == split(rng, 2)
        s2 == split(s1[1], 2)
    IN  [carry |-> s2[1], sample |-> s1[2], step |-> split(s2[2], num_envs),
         splits |-> <<rng, s1[1], s2[2]>>]

\* the collection stops as soon as every instance reports the episode over
scan_finished_on_done(n, transition) ==
    n = config.NUM_STEPS \/ \A j \in DOMAIN transition.done.data : transition.done.data[j] = 1

\* lax.scan(_env_step, runner_state, None, NUM_STEPS): done after n steps
scan_finished(n, transition) == n = config.NUM_STEPS

\* the rollout step hands on a train_state of its own making
env_step_carry_touched(train_state, env_state, obsv, rng) ==
    [train_state |-> [train_state EXCEPT !.params = @ + 1],
     env_state |-> env_state, last_obs |-> obsv, rng |-> rng]

\* runner_state = (train_state, env_state, obsv, rng), line 434
env_step_carry(train_state, env_state, obsv, rng) ==
    [train_state |-> train_state, env_state |-> env_state, last_obs |-> obsv, rng |-> rng]

\* _env_step, lines 401-435
_env_step(rs, so, outs) ==
    LET train_state == rs.train_state
        env_state == rs.env_state
        last_obs == rs.last_obs
        keys == env_step_keys(rs.rng, config.NUM_ENVS)
        obs_batch == batchify(last_obs, agents, config.NUM_ACTORS)
        value == network_value(train_state.params, obs_batch)
        action == pi_sample(train_state.params, obs_batch, so)
        log_prob == pi_log_prob(train_state.params, obs_batch, action)
        unb == unbatchify(action, agents, config.NUM_ENVS, num_agents)
        env_act == [a \in DOMAIN unb |-> flatten(unb[a])]
        r == [e \in 1..config.NUM_ENVS |->
                env_step(outs[e], env_state[e],
                         [a \in DOMAIN env_act |-> Index0(env_act[a], e - 1)])]
        obsv == vmap_stack(r, "obs", Range(agents))
        reward == vmap_stack(r, "reward", Range(agents))
        done == vmap_stack(r, "done", Range(agents) \cup {"__all__"})
        info == reshape(stack([e \in 1..config.NUM_ENVS |-> r[e].info]),
                        <<config.NUM_ACTORS>>)
        transition ==
            [done |-> squeeze(batchify(done, agents, config.NUM_ACTORS)),
             action |-> action,
             value |-> value,
             reward |-> squeeze(batchify(reward, agents, config.NUM_ACTORS)),
             log_prob |-> log_prob,
             obs |-> obs_batch,
             info |-> info]
    IN  [runner_state |->
             env_step_carry(train_state, [e \in 1..config.NUM_ENVS |-> r[e].state],
                            obsv, keys.carry),
         transition |-> transition,
         step |-> [last_obs |-> last_obs, env_state |-> env_state,
                   params |-> train_state.params,
                   env_act |-> env_act, reward |-> reward, done |-> done,
                   stepped |-> DOMAIN r]]

\* lines 437-439: one iteration of the rollout scan over _env_step
EnvStep ==
    /\ pc = "COLLECTING"
    /\ LET keys == env_step_keys(runner_state.rng, config.NUM_ENVS)
       IN  \E so \in Outcomes(keys.sample, world.sample) :
           \E outs \in [1..config.NUM_ENVS -> world.done] :
             /\ \A e \in 1..config.NUM_ENVS : outs[e] \in Outcomes(keys.step[e], world.done)
             /\ \E res \in {_env_step(runner_state, so, outs)} :
                    /\ runner_state' = res.runner_state
                    /\ traj_batch' = Append(traj_batch, res.transition)
                    /\ hist' = Record(hist, <<[kind |-> "transition", v |-> res.transition]>>)
                    /\ step_log' = IF traj_batch = <<>> THEN <<res.step>>
                                   ELSE Append(step_log, res.step)
                    /\ pc' = IF scan_finished(Len(traj_batch) + 1, res.transition)
                             THEN "ESTIMATING" ELSE "COLLECTING"
                    /\ key_log' = key_log
                         \o [k \in DOMAIN keys.splits |-> Consumed(keys.splits[k], "split")]
                         \o <<Consumed(keys.sample, "pi.sample")>>
                         \o [e \in 1..config.NUM_ENVS |-> Consumed(keys.step[e], "env.step")]
                    /\ memo' = IF hist.on
                               THEN memo \o <<[key |-> keys.sample, outcome |-> so]>>
                                      \o [e \in 1..config.NUM_ENVS |->
                                            [key |-> keys.step[e], outcome |-> outs[e]]]
                               ELSE memo
    /\ UNCHANGED <<call, ret, config, estimate, update_state, grad_log, world>>

\* lines 441-470: the bootstrap value, then advantages and targets
CalculateAdvantage ==
    /\ pc = "ESTIMATING"
    /\ LET last_obs_batch == batchify(runner_state.last_obs, agents, config.NUM_ACTORS)
           last_val == network_value(runner_state.train_state.params, last_obs_batch)
           r == calculate_gae(traj_batch, last_val)
       IN  estimate' = [last_val |-> last_val, advantages |-> r[1], targets |-> r[2],
                        update |-> update_state.update, steps |-> Len(traj_batch)]
    /\ update_state' = [update |-> update_state.update] @@ NoUpdate
    /\ pc' = "UPDATING"
    /\ UNCHANGED <<call, ret, config, runner_state, traj_batch, key_log, step_log,
                   grad_log, world, memo, hist>>

(***************************************************************************)
(* The Policy Updater.                                                     *)
(***************************************************************************)
Fields == {"done", "action", "value", "reward", "log_prob", "obs", "info"}

\* batch = (traj_batch, advantages, targets), every leaf with axes (time, actor, ...)
batch_tree(traj, advantages, targets) ==
    [l \in Fields \cup {"advantages", "targets"} |->
        IF l = "advantages" THEN stack(advantages)
        ELSE IF l = "targets" THEN stack(targets)
        ELSE stack([t \in DOMAIN traj |-> traj[t][l]])]

\* jnp.take(x, permutation, axis=0); permutation holds 0-based indices
take0(x, permutation) ==
    IF IsErr(x) THEN x
    ELSE IF \E k \in DOMAIN permutation : IsErr(Index0(x, permutation[k])) THEN SHAPE_ERR
    ELSE Arr(<<Len(permutation)>> \o Tail(x.shape),
             Concat([k \in DOMAIN permutation |-> Index0(x, permutation[k]).data]))

\* the targets are reshaped but not moved by the permutation
make_minibatches_targets_in_place(batch, permutation, batch_size, num_minibatches) ==
    [l \in DOMAIN batch |->
        LET flat == reshape(batch[l], <<batch_size>> \o Tail(Tail(batch[l].shape)))
            shuffled == IF l = "targets" THEN flat ELSE take0(flat, permutation)
        IN  IF IsErr(shuffled) THEN shuffled
            ELSE reshape(shuffled, <<num_minibatches, -1>> \o Tail(shuffled.shape))]

\* lines 529-541: flatten time and actors, shuffle, split
make_minibatches(batch, permutation, batch_size, num_minibatches) ==
    [l \in DOMAIN batch |->
        LET flat == reshape(batch[l], <<batch_size>> \o Tail(Tail(batch[l].shape)))
            shuffled == take0(flat, permutation)
        IN  IF IsErr(shuffled) THEN shuffled
            ELSE reshape(shuffled, <<num_minibatches, -1>> \o Tail(shuffled.shape))]

\* the k-th minibatch (from 0) that lax.scan hands to _update_minbatch
minibatch(minibatches, k) == [l \in DOMAIN minibatches |-> Index0(minibatches[l], k)]

\* jax.random.permutation(key, n): the permutations of 0..n-1
AllPermutations(n) ==
    {p \in [1..n -> 0..(n - 1)] : \A i, j \in 1..n : p[i] = p[j] => i = j}

\* the permutations a shuffle of n elements can yield: any, or (to keep long
\* runs small) only the rotation by one, only the reversal, or both of these
PermutationChoices(kind, n) ==
    LET rotation == [k \in 1..n |-> k % n]
        reversal == [k \in 1..n |-> n - k]
    IN  IF kind = "any" THEN AllPermutations(n)
        ELSE IF kind = "rotate" THEN {rotation}
        ELSE IF kind = "reverse" THEN {reversal}
        ELSE {rotation, reversal}

\* a shuffle that draws from a source other than its key
random_permutation_unkeyed(key, n) == PermutationChoices(world.shuffle, n)

\* jax.random.permutation(key, n), line 528: a function of the key
random_permutation(key, n) == Outcomes(key, PermutationChoices(world.shuffle, n))

Min(a, b) == IF a <= b THEN a ELSE b

\* jnp.clip(x, lo, hi)
jnp_clip(x, lo, hi) == IF x < lo THEN lo ELSE IF x > hi THEN hi ELSE x

\* the ratio is used as it is, without the clipped alternative
loss_actor_unclipped(ratio, gae, clip_eps) == 0 - Mul(ratio, gae)

\* lines 494-505 of _loss_fn for one sample: -min(ratio * gae, clip(ratio) * gae)
loss_actor(ratio, gae, clip_eps) ==
    LET loss_actor1 == Mul(ratio, gae)
        loss_actor2 == Mul(jnp_clip(ratio, SCALE - clip_eps, SCALE + clip_eps), gae)
    IN  0 - Min(loss_actor1, loss_actor2)

RECURSIVE Sum(_)
Sum(xs) == IF xs = <<>> THEN 0 ELSE Head(xs) + Sum(Tail(xs))

\* jax.value_and_grad(_loss_fn)(params, traj_batch, advantages, targets): a
\* stand-in for the gradient, a function of the parameters and the minibatch
loss_grad(params, batch_info) ==
    (params + Sum(batch_info["action"].data) + Sum(batch_info["obs"].data)
       + (Sum(batch_info["advantages"].data) \div Half)
       + (Sum(batch_info["targets"].data) \div Half)) % 2

\* the schedule is read after the step counter was advanced
linear_schedule_after_increment(count) ==
    [num |-> config.NUM_UPDATES
               - ((count + 1) \div (config.NUM_MINIBATCHES * config.UPDATE_EPOCHS)),
     den |-> config.NUM_UPDATES]

\* linear_schedule, lines 366-368: the factor frac = 1 - q / NUM_UPDATES applied
\* to LR, kept as the exact fraction (NUM_UPDATES - q) / NUM_UPDATES
linear_schedule(count) ==
    [num |-> config.NUM_UPDATES
               - (count \div (config.NUM_MINIBATCHES * config.UPDATE_EPOCHS)),
     den |-> config.NUM_UPDATES]

\* train_state.apply_gradients(grads=grads)
apply_gradients(train_state, grads) ==
    [params |-> train_state.params + 1 + grads, step |-> train_state.step + 1]

\* every minibatch of an epoch starts from the parameters the epoch started with
scan_carry_kept(train_state, new) == train_state

\* lax.scan(_update_minbatch, train_state, minibatches) (lines 520, 542-544):
\* the train_state a minibatch returns is the carry handed to the next
scan_carry(train_state, new) == new

\* the epoch scan stops after its first epoch
epochs_finished_after_first(epoch) == TRUE

\* lax.scan(_update_epoch, update_state, None, UPDATE_EPOCHS), lines 548-551
epochs_finished(epoch) == epoch + 1 = config.UPDATE_EPOCHS

\* lines 522-541: the head of _update_epoch
UpdateEpoch ==
    /\ pc = "UPDATING"
    /\ update_state.minibatches = <<>>
    /\ LET s == split(runner_state.rng, 2)
           batch_size == config.MINIBATCH_SIZE * config.NUM_MINIBATCHES
       IN  /\ runner_state' = [runner_state EXCEPT !.rng = s[1]]
           /\ IF ~assert_batch_size(config, batch_size)
              THEN /\ pc' = "FAILED"
                   /\ key_log' = Append(key_log, Consumed(runner_state.rng, "split"))
                   /\ UNCHANGED <<update_state, memo>>
              ELSE \E permutation \in random_permutation(s[2], batch_size) :
                     /\ update_state' =
                          [update_state EXCEPT
                             !.minibatches =
                                 make_minibatches(
                                     batch_tree(traj_batch, estimate.advantages,
                                                estimate.targets),
                                     permutation, batch_size, config.NUM_MINIBATCHES),
                             !.mb = 0]
                     /\ key_log' = key_log \o <<Consumed(runner_state.rng, "split"),
                                                Consumed(s[2], "permutation")>>
                     /\ memo' = IF hist.on
                                THEN Append(memo, [key |-> s[2], outcome |-> permutation])
                                ELSE memo
                     /\ pc' = pc
    /\ UNCHANGED <<call, ret, config, traj_batch, estimate, step_log, grad_log,
                   world, hist>>

\* _update_minbatch, lines 474-520, for the next minibatch of the epoch; after
\* the last one the epoch is over (lines 545-546), and after the last epoch
\* the iteration (lines 552-557) and, after NUM_UPDATES of them, the run
UpdateMinibatch ==
    /\ pc = "UPDATING"
    /\ update_state.minibatches # <<>>
    /\ LET train_state == runner_state.train_state
           batch_info == minibatch(update_state.minibatches, update_state.mb)
           grads == loss_grad(train_state.params, batch_info)
           new == apply_gradients(train_state, grads)
           epoch_over == update_state.mb + 1 = config.NUM_MINIBATCHES
           update_over == epoch_over /\ epochs_finished(update_state.epoch)
           entry == [update |-> update_state.update, epoch |-> update_state.epoch,
                     mb |-> update_state.mb, params_in |-> train_state.params,
                     lr |-> linear_schedule(train_state.step),
                     params_out |-> new.params]
       IN  /\ runner_state' = [runner_state EXCEPT
                                  !.train_state = scan_carry(train_state, new)]
           /\ grad_log' = IF update_state.epoch = 0 /\ update_state.mb = 0
                          THEN <<entry>> ELSE Append(grad_log, entry)
           /\ hist' = Record(hist, <<[kind |-> "params", v |-> new.params]>>)
           /\ IF ~epoch_over
              THEN /\ update_state' = [update_state EXCEPT !.mb = @ + 1]
                   /\ UNCHANGED <<pc, traj_batch, estimate>>
              ELSE IF ~update_over
              THEN /\ update_state' = [update_state EXCEPT !.epoch = @ + 1,
                                                           !.minibatches = <<>>, !.mb = 0]
                   /\ UNCHANGED <<pc, traj_batch, estimate>>
              ELSE /\ update_state' = [update |-> update_state.update + 1] @@ NoUpdate
                   /\ traj_batch' = <<>>
                   /\ estimate' = <<>>
                   /\ pc' = IF update_state.update + 1 = config.NUM_UPDATES
                            THEN "DONE" ELSE "COLLECTING"
    /\ UNCHANGED <<call, ret, config, key_log, step_log, world, memo>>

\* the collaborators of the long runs: two deterministic ones
Worlds ==
    {[reset |-> {0}, sample |-> {0}, done |-> {"none"}, shuffle |-> "rotate"],
     [reset |-> {1}, sample |-> {1}, done |-> {"all"}, shuffle |-> "reverse"]}

Init == InitTrain(Configs, Worlds, FALSE)

Next ==
    \/ TraceFailure
    \/ TrainInit
    \/ EnvStep
    \/ CalculateAdvantage
    \/ UpdateEpoch
    \/ UpdateMinibatch

Spec == Init /\ [][Next]_vars

(***************************************************************************)
(* One rollout collection with every outcome of the collaborators: any     *)
(* reset state, any sample and any done pattern in every instance at every *)
(* step.                                                                   *)
(***************************************************************************)
AnyWorld ==
    [reset |-> ResetStates, sample |-> SampleOutcomes, done |-> DonePatterns,
     shuffle |-> "both"]

RolloutConfigs ==
    {[NUM_ENVS |-> p[1], NUM_STEPS |-> p[2], TOTAL_TIMESTEPS |-> p[1] * p[2],
      UPDATE_EPOCHS |-> 1, NUM_MINIBATCHES |-> 1] :
        p \in {q \in (1..MaxEnvs) \X (1..MaxRollout) : q[1] * q[2] <= MaxRollout}}

InitRollout == InitTrain(RolloutConfigs, {AnyWorld}, FALSE)

NextRollout ==
    \/ TrainInit
    \/ EnvStep
    \/ CalculateAdvantage

SpecRollout == InitRollout /\ [][NextRollout]_vars

(***************************************************************************)
(* Two runs of train on the same key and configuration with the same       *)
(* collaborators: what a stochastic operation returned for a key in the    *)
(* first run it returns for that key in the second (memo); hist keeps the  *)
(* transitions and parameters of both runs in the order they were made.    *)
(***************************************************************************)
TwoRunConfigs ==
    {[NUM_ENVS |-> 1, NUM_STEPS |-> h, TOTAL_TIMESTEPS |-> h * u,
      UPDATE_EPOCHS |-> 1, NUM_MINIBATCHES |-> m] :
        h \in 1..MaxRunSteps, u \in 1..MaxRunSteps, m \in {1, num_agents}} \ 
    {c \in [NUM_ENVS : {1}, NUM_STEPS : 1..MaxRunSteps,
            TOTAL_TIMESTEPS : 1..(MaxRunSteps * MaxRunSteps),
            UPDATE_EPOCHS : {1}, NUM_MINIBATCHES : {1, num_agents}] :
        c.TOTAL_TIMESTEPS > MaxRunSteps}

InitTwoRuns == InitTrain(TwoRunConfigs, {AnyWorld}, TRUE)

\* train_jit(rngs) (line 602) called once more with the same key
Restart ==
    /\ pc = "DONE"
    /\ hist.on
    /\ hist.run = 1
    /\ pc' = "INIT"
    /\ runner_state' = [train_state |-> [params |-> InitParams, step |-> 0],
                        env_state |-> <<>>, last_obs |-> <<>>,
                        rng |-> split(PRNGKey(SEED), 1)[1]]
    /\ traj_batch' = <<>>
    /\ estimate' = <<>>
    /\ update_state' = [update |-> 0] @@ NoUpdate
    /\ key_log' = <<>>
    /\ step_log' = <<>>
    /\ grad_log' = <<>>
    /\ hist' = [on |-> TRUE, run |-> 2, e |-> <<>>, first |-> hist.e]
    /\ UNCHANGED <<call, ret, config, world, memo>>

NextTwoRuns ==
    \/ TrainInit
    \/ EnvStep
    \/ CalculateAdvantage
    \/ UpdateEpoch
    \/ UpdateMinibatch
    \/ Restart

SpecTwoRuns == InitTwoRuns /\ [][NextTwoRuns]_vars

(***************************************************************************)
(* Inputs of the Batch Adapter checks.                                     *)
(***************************************************************************)
AgentLists == {<<"agent_0", "agent_1">>, <<"agent_1", "agent_0">>, <<"agent_0">>}

Cell == {0, 1}

\* all arrays of one shape over Cell
ArraysOf(shape) == {Arr(shape, d) : d \in [1..Prod(shape) -> Cell]}

\* the per-agent shapes (num_envs, ...) tried for an agent list of length a
ValueShapes(a) ==
    LET E == 1..MaxCells
    IN  {<<e>> : e \in {e \in E : a * e <= MaxCells}}
        \cup {<<p[1], p[2]>> : p \in {p \in E \X E : a * p[1] * p[2] <= MaxCells}}
        \cup {<<p[1], p[2], 1>> : p \in {p \in E \X E : a * p[1] * p[2] <= MaxCells}}

InitBatch ==
    /\ \E al \in AgentLists :
         \E sh \in ValueShapes(Len(al)) :
            \/ \E x \in [Range(al) -> ArraysOf(sh)] :
                  call = [fn |-> "dict", agent_list |-> al, num_envs |-> sh[1], x |-> x]
            \/ \E y \in ArraysOf(<<Len(al) * sh[1]>> \o Tail(sh)) :
                  call = [fn |-> "flat", agent_list |-> al, num_envs |-> sh[1], x |-> y]
    /\ ret = NoRet
    /\ TrainIdle

\* unbatchify(batchify(x, agent_list, num_agents*num_envs), agent_list, num_envs, num_agents)
RoundTripDict ==
    /\ call.fn = "dict"
    /\ ret.done = FALSE
    /\ LET na == Len(call.agent_list)
           b == batchify(call.x, call.agent_list, na * call.num_envs)
       IN  ret' = [done |-> TRUE, mid |-> b,
                   out |-> unbatchify(b, call.agent_list, call.num_envs, na)]
    /\ UNCHANGED <<call, trainVars>>

\* batchify(unbatchify(y, agent_list, num_envs, num_agents), agent_list, num_agents*num_envs)
RoundTripFlat ==
    /\ call.fn = "flat"
    /\ ret.done = FALSE
    /\ LET na == Len(call.agent_list)
           d == unbatchify(call.x, call.agent_list, call.num_envs, na)
       IN  ret' = [done |-> TRUE, mid |-> d,
                   out |-> batchify(d, call.agent_list, na * call.num_envs)]
    /\ UNCHANGED <<call, trainVars>>

NextBatch == RoundTripDict \/ RoundTripFlat

SpecBatch == InitBatch /\ [][NextBatch]_vars

(***************************************************************************)
(* batchify on dictionaries of any key set: agents missing, or keys that   *)
(* are no agents (as the "__all__" entry of the done dictionary, line 425). *)
(***************************************************************************)
DictKeys == {"agent_0", "agent_1", "__all__"}

KeyShapes == {<<e>> : e \in 1..MaxKeyEnvs} \cup {<<e, 1>> : e \in 1..MaxKeyEnvs}

InitKeys ==
    /\ \E al \in AgentLists, K \in SUBSET DictKeys, sh \in KeyShapes :
         \E x \in [K -> ArraysOf(sh)] :
            call = [fn |-> "batchify", agent_list |-> al, num_envs |-> sh[1], x |-> x]
    /\ ret = NoRet
    /\ TrainIdle

\* batchify(x, agent_list, num_agents*num_envs)
BatchifyCall ==
    /\ call.fn = "batchify"
    /\ ret.done = FALSE
    /\ ret' = [done |-> TRUE,
               out |-> batchify(call.x, call.agent_list,
                                Len(call.agent_list) * call.num_envs)]
    /\ UNCHANGED <<call, trainVars>>

NextKeys == BatchifyCall

SpecKeys == InitKeys /\ [][NextKeys]_vars

(***************************************************************************)
(* The clipped surrogate term of _loss_fn for one sample: probability      *)
(* ratios (an exponential, so positive), normalized advantages and clip    *)
(* widths that are multiples of a tenth, so that the products are exact.   *)
(***************************************************************************)
Tenth == SCALE \div 10
CLIP_EPS == 2000
ClipEpsValues == {Tenth, CLIP_EPS, 5 * Tenth}

InitLoss ==
    /\ \E r \in 1..MaxRatioTenths, a \in (0 - MaxAdvTenths)..MaxAdvTenths,
          eps \in ClipEpsValues :
         call = [fn |-> "loss_actor", ratio |-> r * Tenth, gae |-> a * Tenth,
                 CLIP_EPS |-> eps]
    /\ ret = NoRet
    /\ TrainIdle

LossCall ==
    /\ call.fn = "loss_actor"
    /\ ret.done = FALSE
    /\ ret' = [done |-> TRUE, loss_actor |-> loss_actor(call.ratio, call.gae, call.CLIP_EPS)]
    /\ UNCHANGED <<call, trainVars>>

NextLoss == LossCall

SpecLoss == InitLoss /\ [][NextLoss]_vars

(***************************************************************************)
(* Inputs of the Advantage Estimator checks.                               *)
(***************************************************************************)
GaeActors == {1, 2}
GaeRewards == {0, SCALE}
GaeValues == {0, Half}
GaeDones == {0, 1}

GaeShapes == {p \in (1..MaxGaeCells) \X GaeActors : p[1] * p[2] <= MaxGaeCells}

GaeTransitions(n) ==
    {[done |-> Arr(<<n>>, d), value |-> Arr(<<n>>, v), reward |-> Arr(<<n>>, r)]
        : d \in [1..n -> GaeDones], v \in [1..n -> GaeValues], r \in [1..n -> GaeRewards]}

InitGae ==
    /\ \E p \in GaeShapes :
         \E tb \in [1..p[1] -> GaeTransitions(p[2])], lv \in [1..p[2] -> GaeValues] :
            call = [fn |-> "gae", traj_batch |-> tb, last_val |-> Arr(<<p[2]>>, lv)]
    /\ ret = NoRet
    /\ TrainIdle

GaeCall ==
    /\ call.fn = "gae"
    /\ ret.done = FALSE
    /\ LET r == calculate_gae(call.traj_batch, call.last_val)
       IN  ret' = [done |-> TRUE, advantages |-> r[1], targets |-> r[2]]
    /\ UNCHANGED <<call, trainVars>>

NextGae == GaeCall

SpecGae == InitGae /\ [][NextGae]_vars

(***************************************************************************)
(* _update_epoch's shuffle on its own: a batch whose every leaf holds, at   *)
(* time t and actor a, the flat index t * NUM_ACTORS + a (advantages and    *)
(* targets offset by AdvTag and TargetTag), and any permutation.            *)
(***************************************************************************)
AdvTag == 100
TargetTag == 200

ShuffleConfigs ==
    {[NUM_STEPS |-> p[1], NUM_ACTORS |-> p[2], NUM_MINIBATCHES |-> p[3],
      MINIBATCH_SIZE |-> (p[2] * p[1]) \div p[3]] :
        p \in {q \in (1..MaxBatch) \X (1..MaxBatch) \X (1..MaxBatch) :
                  q[1] * q[2] <= MaxBatch /\ q[3] <= q[1] * q[2]}}

TagRow(c, t, offset) ==
    [a \in 1..c.NUM_ACTORS |-> (t - 1) * c.NUM_ACTORS + (a - 1) + offset]

TaggedTransition(c, t) ==
    [l \in Fields |->
        IF l = "obs" THEN Arr(<<c.NUM_ACTORS, 1>>, TagRow(c, t, 0))
        ELSE Arr(<<c.NUM_ACTORS>>, TagRow(c, t, 0))]

InitShuffle ==
    /\ \E c \in ShuffleConfigs :
         call = [fn |-> "shuffle", config |-> c,
                 traj_batch |-> [t \in 1..c.NUM_STEPS |-> TaggedTransition(c, t)],
                 advantages |-> [t \in 1..c.NUM_STEPS |->
                                   Arr(<<c.NUM_ACTORS>>, TagRow(c, t, AdvTag))],
                 targets |-> [t \in 1..c.NUM_STEPS |->
                                   Arr(<<c.NUM_ACTORS>>, TagRow(c, t, TargetTag))]]
    /\ ret = NoRet
    /\ TrainIdle

\* lines 524-541 of _update_epoch, for any permutation of the batch
ShuffleCall ==
    /\ call.fn = "shuffle"
    /\ ret.done = FALSE
    /\ LET batch_size == call.config.MINIBATCH_SIZE * call.config.NUM_MINIBATCHES
       IN  IF ~assert_batch_size(call.config, batch_size)
           THEN ret' = [done |-> TRUE, failed |-> TRUE]
           ELSE \E permutation \in AllPermutations(batch_size) :
                  ret' = [done |-> TRUE, failed |-> FALSE, permutation |-> permutation,
                          minibatches |->
                             make_minibatches(
                                 batch_tree(call.traj_batch, call.advantages, call.targets),
                                 permutation, batch_size, call.config.NUM_MINIBATCHES)]
    /\ UNCHANGED <<call, trainVars>>

NextShuffle == ShuffleCall

SpecShuffle == InitShuffle /\ [][NextShuffle]_vars

\* the recursion of the specification, for actor slot j (t and j from 1):
\* advantage_t = delta_t + gamma*lambda*(1-done_t)*advantage_{t+1}, advantage_{H+1} = 0
RECURSIVE RefAdvantage(_, _, _, _)
RefAdvantage(tb, lv, t, j) ==
    IF t > Len(tb) THEN 0
    ELSE LET next_value == IF t = Len(tb) THEN lv.data[j] ELSE tb[t + 1].value.data[j]
             nd == 1 - tb[t].done.data[j]
             delta == tb[t].reward.data[j] + Mul(GAMMA, next_value) * nd
                        - tb[t].value.data[j]
         IN  delta + Mul(Mul(GAMMA, GAE_LAMBDA) * nd, RefAdvantage(tb, lv, t + 1, j))

\* C1: _calculate_gae returns, for every step t and actor j, the advantage of
\* the backward recursion (bootstrap value after the last step, value_{t+1}
\* otherwise, advantage 0 beyond the horizon) and target_t = advantage_t + value_t.
C1_GaeIsBackwardRecursion ==
    ret.done =>
        /\ DOMAIN ret.advantages = DOMAIN call.traj_batch
        /\ DOMAIN ret.targets = DOMAIN call.traj_batch
        /\ \A t \in DOMAIN call.traj_batch :
              /\ ret.advantages[t].shape = call.last_val.shape
              /\ ret.targets[t].shape = call.last_val.shape
              /\ \A j \in DOMAIN call.last_val.data :
                    /\ ret.advantages[t].data[j]
                          = RefAdvantage(call.traj_batch, call.last_val, t, j)
                    /\ ret.targets[t].data[j]
                          = RefAdvantage(call.traj_batch, call.last_val, t, j)
                              + call.traj_batch[t].value.data[j]

\* a three-step trajectory without episode end whose values differ from the
\* bootstrap value has been estimated, the first advantage depending on all steps
C1_Witness ==
    /\ ret.done
    /\ Len(call.traj_batch) = 3
    /\ \A t \in 1..3 : call.traj_batch[t].done.data = <<0>>
    /\ call.traj_batch[1].value.data = <<Half>>
    /\ call.traj_batch[2].value.data = <<0>>
    /\ call.traj_batch[3].value.data = <<Half>>
    /\ call.traj_batch[3].reward.data = <<SCALE>>
    /\ call.last_val.data = <<0>>
    /\ ret.advantages[1].data[1] # ret.advantages[2].data[1]

\* C2 as stated: both round trips return their argument unchanged, for values
\* of any shape (a single scalar per environment included).
C2_RoundTripExact == ret.done => ret.out = call.x

\* C2 amended: either round trip keeps the keys and the elements in order and
\* returns every array with exactly one trailing axis, (num_envs, F) per agent
\* or (num_actors, F) flat; it returns its argument exactly when the argument
\* has that shape, and a scalar-per-environment value comes back as
\* (num_envs, 1), equal to the original only after flatten().
C2_RoundTripUpToShape ==
    ret.done =>
        LET na == Len(call.agent_list)
            canon(v, lead) == Arr(<<lead, Len(v.data) \div lead>>, v.data)
        IN  IF call.fn = "dict"
            THEN /\ DOMAIN ret.out = DOMAIN call.x
                 /\ \A a \in DOMAIN call.x :
                       /\ ret.out[a] = canon(call.x[a], call.num_envs)
                       /\ flatten(ret.out[a]) = flatten(call.x[a])
                       /\ Len(call.x[a].shape) = 2 => ret.out[a] = call.x[a]
                       /\ Len(call.x[a].shape) = 1 =>
                             /\ ret.out[a].shape = <<call.num_envs, 1>>
                             /\ ret.out[a] # call.x[a]
            ELSE /\ ret.out = canon(call.x, na * call.num_envs)
                 /\ Len(call.x.shape) = 2 => ret.out = call.x
                 /\ Len(call.x.shape) = 1 => ret.out.shape = <<na * call.num_envs, 1>>

\* a dictionary of two agents over three environments, one scalar per
\* environment and not all alike, went through batchify and unbatchify
C2_Witness ==
    /\ ret.done
    /\ call.fn = "dict"
    /\ Len(call.agent_list) = 2
    /\ call.num_envs = 3
    /\ call.x["agent_0"].shape = <<3>>
    /\ call.x["agent_0"].data = <<0, 1, 1>>
    /\ call.x["agent_1"].data = <<1, 0, 0>>

\* the batch does not split into NUM_MINIBATCHES minibatches of MINIBATCH_SIZE
C4_Mismatch == config.MINIBATCH_SIZE * config.NUM_MINIBATCHES # config.NUM_STEPS * config.NUM_ACTORS

\* C4: whenever minibatch_size * num_minibatches differs from horizon * num_actors
\* (that is, NUM_ACTORS*NUM_STEPS is no multiple of NUM_MINIBATCHES), the run never
\* completes, the only step out of the update phase is the batch-size assertion
\* failure, nothing runs after a failure, and up to and including the failure no
\* gradient step has been applied: parameters and optimizer step are those of the
\* initialisation and no minibatch was formed.  Without a mismatch there is no failure.
C4_MismatchFailsBeforeAnyStep ==
    /\ [](C4_Mismatch =>
            /\ (config.NUM_ACTORS * config.NUM_STEPS) % config.NUM_MINIBATCHES # 0
            /\ pc # "DONE"
            /\ runner_state.train_state = [params |-> InitParams, step |-> 0]
            /\ grad_log = <<>>
            /\ update_state.minibatches = <<>>)
    /\ [](~C4_Mismatch =>
            /\ (config.NUM_ACTORS * config.NUM_STEPS) % config.NUM_MINIBATCHES = 0
            /\ pc # "FAILED")
    /\ [][/\ (C4_Mismatch /\ pc = "UPDATING") => pc' = "FAILED"
          /\ pc # "FAILED"]_vars

C4_Witness ==
    /\ C4_Mismatch
    /\ pc = "FAILED"
    /\ Len(traj_batch) = config.NUM_STEPS
    /\ config.NUM_STEPS = 2
    /\ estimate # <<>>

\* C5: the phases follow INIT, then COLLECTING, ESTIMATING, UPDATING per iteration:
\* estimation starts only with all NUM_STEPS transitions of the iteration recorded,
\* the update starts only with the advantages and targets of that iteration
\* computed from them, a new collection (or DONE) starts only after all
\* UPDATE_EPOCHS epochs of all NUM_MINIBATCHES minibatches ran, and DONE is entered
\* after exactly (TOTAL_TIMESTEPS \div NUM_STEPS) \div NUM_ENVS iterations.
C5_PhaseSteps ==
    {<<"INIT", "COLLECTING">>, <<"COLLECTING", "ESTIMATING">>,
     <<"ESTIMATING", "UPDATING">>, <<"UPDATING", "COLLECTING">>,
     <<"UPDATING", "DONE">>, <<"INIT", "FAILED">>, <<"UPDATING", "FAILED">>}

C5_StepsPerIteration == config.UPDATE_EPOCHS * config.NUM_MINIBATCHES

C5_PhaseOrder ==
    /\ [][pc' # pc => <<pc, pc'>> \in C5_PhaseSteps]_vars
    /\ [][pc' = "COLLECTING" /\ pc # "COLLECTING" => traj_batch' = <<>>]_vars
    /\ [][pc = "UPDATING" /\ pc' \in {"COLLECTING", "DONE"} =>
            /\ update_state.epoch = config.UPDATE_EPOCHS - 1
            /\ update_state.mb = config.NUM_MINIBATCHES - 1
            /\ Len(grad_log') = C5_StepsPerIteration
            /\ update_state'.update = update_state.update + 1]_vars
    /\ [](pc = "COLLECTING" => Len(traj_batch) < config.NUM_STEPS)
    /\ [](pc = "ESTIMATING" => Len(traj_batch) = config.NUM_STEPS)
    /\ [](pc = "UPDATING" =>
            /\ Len(traj_batch) = config.NUM_STEPS
            /\ estimate # <<>>
            /\ estimate.update = update_state.update
            /\ estimate.steps = config.NUM_STEPS
            /\ Len(estimate.advantages) = config.NUM_STEPS
            /\ Len(estimate.targets) = config.NUM_STEPS)
    /\ [](pc \in {"COLLECTING", "ESTIMATING", "UPDATING"} =>
            /\ update_state.update < config.NUM_UPDATES
            /\ runner_state.train_state.step >= update_state.update * C5_StepsPerIteration
            /\ runner_state.train_state.step < (update_state.update + 1) * C5_StepsPerIteration)
    /\ [](pc = "DONE" =>
            /\ update_state.update =
                 (config.TOTAL_TIMESTEPS \div config.NUM_STEPS) \div config.NUM_ENVS
            /\ runner_state.train_state.step = update_state.update * C5_StepsPerIteration)

C5_Witness ==
    /\ pc = "DONE"
    /\ update_state.update = 2
    /\ config.NUM_STEPS = 2
    /\ config.NUM_ENVS = 2
    /\ config.TOTAL_TIMESTEPS % (config.NUM_STEPS * config.NUM_ENVS) # 0
    /\ Len(grad_log) > 1

\* C6: the gradient steps of an iteration are logged in the order epoch by epoch,
\* minibatch by minibatch, never more than UPDATE_EPOCHS * NUM_MINIBATCHES and
\* exactly that many once the iteration is over; each step after the first starts
\* from the parameters the previous step produced (across the epoch boundary too),
\* the first starts from the parameters every transition of the iteration was
\* collected under, and the carried parameters are those of the last step.
C6_ThisIteration ==
    /\ grad_log # <<>>
    /\ \/ pc = "UPDATING" /\ grad_log[1].update = update_state.update
       \/ pc = "DONE"
       \/ pc = "COLLECTING" /\ traj_batch = <<>>

C6_SequentialGradientSteps ==
    /\ Len(grad_log) <= config.UPDATE_EPOCHS * config.NUM_MINIBATCHES
    /\ \A k \in DOMAIN grad_log :
          /\ grad_log[k].update = grad_log[1].update
          /\ grad_log[k].epoch = (k - 1) \div config.NUM_MINIBATCHES
          /\ grad_log[k].mb = (k - 1) % config.NUM_MINIBATCHES
          /\ k > 1 => grad_log[k].params_in = grad_log[k - 1].params_out
    /\ C6_ThisIteration =>
          /\ Len(step_log) = config.NUM_STEPS
          /\ \A t \in DOMAIN step_log : step_log[t].params = grad_log[1].params_in
          /\ runner_state.train_state.params = grad_log[Len(grad_log)].params_out
          /\ runner_state.train_state.step =
                grad_log[1].update * config.UPDATE_EPOCHS * config.NUM_MINIBATCHES
                  + Len(grad_log)
    /\ (pc \in {"COLLECTING", "ESTIMATING", "DONE"} /\ update_state.update > 0) =>
          /\ Len(grad_log) = config.UPDATE_EPOCHS * config.NUM_MINIBATCHES
          /\ grad_log[1].update = update_state.update - 1

C6_Witness ==
    /\ pc = "DONE"
    /\ config.UPDATE_EPOCHS = 2
    /\ config.NUM_MINIBATCHES = 2
    /\ Len(grad_log) = 4
    /\ grad_log[1].update = 1
    /\ grad_log[3].params_in = grad_log[2].params_out
    /\ grad_log[3].params_in # grad_log[1].params_in

\* C9: no key is consumed twice (neither by two operations, nor split twice, nor
\* split and also used), the carried key has not been consumed yet, and every
\* key handed to a stochastic operation is a child of a key that was split before.
C9_IsChild(k, parent) ==
    /\ Len(k) = Len(parent) + 1
    /\ SubSeq(k, 1, Len(parent)) = parent

C9_KeysUsedOnce ==
    /\ \A i, j \in DOMAIN key_log : key_log[i].key = key_log[j].key => i = j
    /\ \A i \in DOMAIN key_log : key_log[i].key # runner_state.rng
    /\ \A i \in DOMAIN key_log :
          key_log[i].op # "split" =>
             \E j \in 1..(i - 1) : /\ key_log[j].op = "split"
                                   /\ C9_IsChild(key_log[i].key, key_log[j].key)
    /\ \A i \in DOMAIN key_log :
          \A j \in DOMAIN key_log :
             C9_IsChild(key_log[j].key, key_log[i].key) =>
                key_log[i].op = "split" /\ i < j

C9_Witness ==
    /\ pc = "DONE"
    /\ config.NUM_UPDATES = 2
    /\ config.NUM_ENVS = 2
    /\ \E i \in DOMAIN key_log : key_log[i].op = "permutation"
    /\ Cardinality({i \in DOMAIN key_log : key_log[i].op = "pi.sample"}) >= 2
    /\ Cardinality({i \in DOMAIN key_log : key_log[i].op = "env.step"}) >= 4
    /\ \E i \in DOMAIN key_log : key_log[i].op = "env.reset"
    /\ \E i \in DOMAIN key_log : key_log[i].op = "network.init"

\* C3: for every permutation the minibatches are NUM_MINIBATCHES rows of
\* MINIBATCH_SIZE elements in which every flat index 0..NUM_STEPS*NUM_ACTORS-1 of
\* the batch occurs exactly once, position (k, j) holds the element the
\* permutation names for it, and every field of the transition, the advantage and
\* the target at one position all come from that same original index.
C3_Shuffled == call.fn = "shuffle" /\ ret.done /\ ~ret.failed

C3_At(l, k, j) == Index0(Index0(ret.minibatches[l], k), j).data[1]

C3_MinibatchesPartition ==
    C3_Shuffled =>
        LET c == call.config
            B == c.NUM_STEPS * c.NUM_ACTORS
            M == c.NUM_MINIBATCHES
            S == c.MINIBATCH_SIZE
        IN  /\ \A l \in DOMAIN ret.minibatches :
                  /\ ~IsErr(ret.minibatches[l])
                  /\ SubSeq(ret.minibatches[l].shape, 1, 2) = <<M, S>>
            /\ \A i \in 0..(B - 1) :
                  Cardinality({p \in (0..(M - 1)) \X (0..(S - 1)) :
                                  C3_At("action", p[1], p[2]) = i}) = 1
            /\ \A k \in 0..(M - 1), j \in 0..(S - 1) :
                  /\ C3_At("action", k, j) = ret.permutation[k * S + j + 1]
                  /\ \A l \in Fields : C3_At(l, k, j) = C3_At("action", k, j)
                  /\ C3_At("advantages", k, j) = C3_At("action", k, j) + AdvTag
                  /\ C3_At("targets", k, j) = C3_At("action", k, j) + TargetTag

C3_Witness ==
    /\ C3_Shuffled
    /\ call.config.NUM_STEPS = 2
    /\ call.config.NUM_ACTORS = 2
    /\ call.config.NUM_MINIBATCHES = 2
    /\ ret.permutation = <<2, 0, 3, 1>>
    /\ C3_At("obs", 1, 0) = 3
    /\ C3_At("targets", 0, 0) = 2 + TargetTag

\* C7: every step of a collection appends one transition whose every field has
\* NUM_ACTORS rows and steps all NUM_ENVS instances, whatever done flags the step
\* returned; the collection goes on until exactly NUM_STEPS transitions are
\* recorded and ends then, so that estimation sees NUM_STEPS transitions and
\* every instance stepped NUM_STEPS times.
C7_TimesStepped(e) == Cardinality({t \in DOMAIN step_log : e \in step_log[t].stepped})

C7_FullHorizon ==
    /\ [](pc \in {"COLLECTING", "ESTIMATING", "UPDATING"} =>
            /\ Len(traj_batch) <= config.NUM_STEPS
            /\ Len(step_log) = Len(traj_batch)
            /\ \A e \in 1..config.NUM_ENVS : C7_TimesStepped(e) = Len(traj_batch)
            /\ \A t \in DOMAIN traj_batch :
                  \A l \in Fields : traj_batch[t][l].shape[1] = config.NUM_ACTORS)
    /\ [](pc \in {"ESTIMATING", "UPDATING"} => Len(traj_batch) = config.NUM_STEPS)
    /\ [][pc = "COLLECTING" =>
            /\ Len(traj_batch') = Len(traj_batch) + 1
            /\ pc' = IF Len(traj_batch') = config.NUM_STEPS
                     THEN "ESTIMATING" ELSE "COLLECTING"]_vars

C7_Witness ==
    /\ pc = "ESTIMATING"
    /\ config.NUM_STEPS = 2
    /\ config.NUM_ENVS = 2
    /\ step_log[1].done["__all__"].data = <<1, 0>>
    /\ step_log[2].done["agent_0"].data = <<0, 1>>
    /\ C7_TimesStepped(1) = 2
    /\ C7_TimesStepped(2) = 2

\* C8: for every recorded step t, agent agents[i] and instance e, the transition's
\* row (i-1)*NUM_ENVS + e (from 1) holds the observation that agent has in the
\* instance's state before the step, the value and the log-probability the
\* network gives for that observation (and the recorded action), an action of
\* the action space, the reward and the done flag the instance's step returned
\* for that agent; and the action the instance's step received for that agent
\* is the recorded one.
C8_Slot(i, e) == (i - 1) * config.NUM_ENVS + e

C8_SlotsMatch ==
    pc \in {"COLLECTING", "ESTIMATING", "UPDATING"} =>
      \A t \in DOMAIN traj_batch :
        \A i \in DOMAIN agents, e \in 1..config.NUM_ENVS :
          LET j == C8_Slot(i, e)
              tr == traj_batch[t]
              st == step_log[t]
              a == agents[i]
              before == env_obs(st.env_state[e])[a]
              row == Arr(<<1, 1>>, before.data)
              delivered == [b \in Range(agents) |-> Index0(st.env_act[b], e - 1)]
              returned == env_step("none", st.env_state[e], delivered)
          IN  /\ Row(tr.obs, j) = before.data
              /\ st.last_obs[a].shape = <<config.NUM_ENVS, 1>>
              /\ Row(st.last_obs[a], e) = before.data
              /\ tr.value.data[j] = network_value(st.params, row).data[1]
              /\ tr.action.data[j] \in Actions
              /\ tr.log_prob.data[j] =
                    pi_log_prob(st.params, row, Arr(<<1>>, <<tr.action.data[j]>>)).data[1]
              /\ st.env_act[a].shape = <<config.NUM_ENVS>>
              /\ st.env_act[a].data[e] = tr.action.data[j]
              /\ tr.reward.data[j] = returned.reward[a].data[1]
              /\ tr.reward.data[j] = st.reward[a].data[e]
              /\ tr.done.data[j] = st.done[a].data[e]
              /\ st.done["__all__"].data[e] = 1 => tr.done.data[j] = 1
              /\ tr.reward.shape = <<config.NUM_ACTORS>>
              /\ tr.done.shape = <<config.NUM_ACTORS>>

C8_Witness ==
    /\ pc = "ESTIMATING"
    /\ config.NUM_ENVS = 2
    /\ config.NUM_STEPS = 2
    /\ step_log[2].env_state = <<1, 2>>
    /\ traj_batch[2].obs.data = <<2, 4, 3, 5>>
    /\ traj_batch[2].done.data = <<1, 0, 0, 0>>
    /\ traj_batch[2].action.data[1] # traj_batch[2].action.data[2]
    /\ step_log[2].env_act["agent_1"].data =
          <<traj_batch[2].action.data[C8_Slot(2, 1)], traj_batch[2].action.data[C8_Slot(2, 2)]>>

\* C10: the second of two runs on the same key, configuration and collaborators
\* records, transition by transition and gradient step by gradient step, what
\* the first run recorded at the same position, and once it is done the two
\* records are equal.
C10_SecondRun == hist.on /\ hist.run = 2

C10_RunsAgree ==
    C10_SecondRun =>
        /\ Len(hist.e) <= Len(hist.first)
        /\ \A k \in DOMAIN hist.e : hist.e[k] = hist.first[k]
        /\ pc = "DONE" => hist.e = hist.first

C10_Witness ==
    /\ C10_SecondRun
    /\ pc = "DONE"
    /\ config.NUM_STEPS = 2
    /\ config.NUM_MINIBATCHES = 2
    /\ Len(hist.e) = 4
    /\ hist.e[1].kind = "transition"
    /\ hist.e[1].v.done.data = <<1, 0>>
    /\ hist.e[4].kind = "params"
    /\ hist.e[4].v = 4

\* C11: at every step and actor whose done flag is 1 the advantage is the reward
\* minus the value of that step, for all later rewards, values and done flags and
\* every bootstrap value; so with done = 1 everywhere every advantage is its own
\* delta; and for rewards 1,0,0,1, values 0.5, done flags 0,0,0,1 and bootstrap
\* value 0.5 the advantage of the last step (t = 3 from 0) is 0.5.
C11_Estimated == call.fn = "gae" /\ ret.done

C11_Scenario ==
    /\ Len(call.traj_batch) = 4
    /\ call.last_val = Arr(<<1>>, <<Half>>)
    /\ \A t \in 1..4 :
          /\ call.traj_batch[t].reward.data = <<IF t \in {1, 4} THEN SCALE ELSE 0>>
          /\ call.traj_batch[t].value.data = <<Half>>
          /\ call.traj_batch[t].done.data = <<IF t = 4 THEN 1 ELSE 0>>

C11_DoneCutsTheFuture ==
    C11_Estimated =>
        /\ \A t \in DOMAIN call.traj_batch :
              \A j \in DOMAIN call.last_val.data :
                 call.traj_batch[t].done.data[j] = 1 =>
                    ret.advantages[t].data[j] =
                       call.traj_batch[t].reward.data[j] - call.traj_batch[t].value.data[j]
        /\ C11_Scenario => ret.advantages[4].data[1] = Half

\* a done step in the middle of a trajectory whose later steps carry a non-zero
\* advantage and whose successor has a non-zero value
C11_Witness ==
    /\ C11_Estimated
    /\ Len(call.traj_batch) = 3
    /\ call.traj_batch[2].done.data = <<1>>
    /\ call.traj_batch[3].done.data = <<0>>
    /\ call.traj_batch[3].value.data = <<Half>>
    /\ call.traj_batch[3].reward.data = <<SCALE>>
    /\ call.last_val.data = <<Half>>
    /\ ret.advantages[3].data[1] > 0
    /\ ret.advantages[2].data[1] =
          call.traj_batch[2].reward.data[1] - call.traj_batch[2].value.data[1]

\* C12 as stated: batchify fails whenever the key set of the dictionary is not
\* exactly the set of agents of agent_list, be it a missing agent or an extra key.
C12_Batchified == call.fn = "batchify" /\ ret.done

C12_FailsUnlessExactKeys ==
    C12_Batchified => (DOMAIN call.x # Range(call.agent_list) => IsErr(ret.out))

\* C12 amended: batchify fails exactly when an agent of agent_list is no key of
\* the dictionary; keys that are no agents are ignored, and the result is the
\* flat array of the listed agents' values, (num_actors, -1), whatever the
\* other entries hold.
C12_FailsOnMissingAgentOnly ==
    C12_Batchified =>
        LET al == call.agent_list
            na == Len(al) * call.num_envs
            missing == \E k \in DOMAIN al : al[k] \notin DOMAIN call.x
        IN  /\ missing => ret.out = KEY_ERR
            /\ ~missing =>
                  /\ ~IsErr(ret.out)
                  /\ ret.out.shape = <<na, 1>>
                  /\ ret.out.data = Concat([k \in DOMAIN al |-> call.x[al[k]].data])

\* the done dictionary of two agents with its "__all__" entry was batchified
C12_Witness ==
    /\ C12_Batchified
    /\ call.agent_list = <<"agent_0", "agent_1">>
    /\ DOMAIN call.x = DictKeys
    /\ call.num_envs = 2
    /\ call.x["agent_0"] = Arr(<<2>>, <<0, 1>>)
    /\ call.x["agent_1"] = Arr(<<2>>, <<0, 0>>)
    /\ call.x["__all__"] = Arr(<<2>>, <<1, 1>>)
    /\ ret.out = Arr(<<4, 1>>, <<0, 1, 0, 0>>)

\* C13 as stated: the clipped surrogate term of a sample is at most the absolute
\* value of its advantage, for every ratio, clip width and advantage.
C13_Computed == call.fn = "loss_actor" /\ ret.done

C13_Abs(x) == IF x < 0 THEN 0 - x ELSE x

C13_BoundedByAdvantage ==
    C13_Computed => C13_Abs(ret.loss_actor) <= C13_Abs(call.gae)

\* C13 amended: for an advantage >= 0 the term is -adv * min(ratio, 1 + eps), at
\* most (1 + eps) * |adv| in absolute value; for an advantage < 0 it is
\* -adv * max(ratio, 1 - eps), at least (1 - eps) * |adv| and growing with the
\* ratio without bound; it stays within |adv| exactly when ratio <= 1 or adv = 0.
C13_ClippedOnOneSideOnly ==
    C13_Computed =>
        LET r == call.ratio
            adv == call.gae
            lo == SCALE - call.CLIP_EPS
            hi == SCALE + call.CLIP_EPS
            term == ret.loss_actor
        IN  /\ adv >= 0 =>
                  /\ term = 0 - Mul(IF r < hi THEN r ELSE hi, adv)
                  /\ C13_Abs(term) <= Mul(hi, C13_Abs(adv))
            /\ adv < 0 =>
                  /\ term = 0 - Mul(IF r > lo THEN r ELSE lo, adv)
                  /\ C13_Abs(term) >= Mul(lo, C13_Abs(adv))
                  /\ C13_Abs(term) >= Mul(r, C13_Abs(adv))
            /\ (C13_Abs(term) <= C13_Abs(adv)) = (r <= SCALE \/ adv = 0)

\* ratio 2, advantage -1, clip width 0.2: the term is 2, twice the advantage
C13_Witness ==
    /\ C13_Computed
    /\ call.ratio = 2 * SCALE
    /\ call.gae = 0 - SCALE
    /\ call.CLIP_EPS = CLIP_EPS
    /\ ret.loss_actor = 2 * SCALE

\* C14: every gradient step of iteration u (from 0) is taken with the rate
\* LR * (NUM_UPDATES - u) / NUM_UPDATES: the same for all steps of the iteration,
\* LR itself in the first iteration, LR / NUM_UPDATES in the last, never zero or
\* negative.
C14_RateOfIteration ==
    \A k \in DOMAIN grad_log :
        /\ grad_log[k].lr.den = config.NUM_UPDATES
        /\ grad_log[k].lr.num = config.NUM_UPDATES - grad_log[k].update
        /\ grad_log[k].lr = grad_log[1].lr
        /\ grad_log[k].lr.num >= 1
        /\ grad_log[k].update = 0 => grad_log[k].lr.num = grad_log[k].lr.den
        /\ grad_log[k].update = config.NUM_UPDATES - 1 => grad_log[k].lr.num = 1

\* the last of four gradient steps of the second and last iteration of a run
C14_Witness ==
    /\ pc = "DONE"
    /\ config.NUM_UPDATES = 2
    /\ config.UPDATE_EPOCHS = 2
    /\ config.NUM_MINIBATCHES = 2
    /\ Len(grad_log) = 4
    /\ grad_log[4].update = 1
    /\ grad_log[4].lr = [num |-> 1, den |-> 2]
    /\ runner_state.train_state.step = 8

\* C15: a step of collection or estimation leaves the train_state (parameters
\* and optimizer step) as it was, and all transitions of a trajectory and its
\* bootstrap value are computed under the same parameters; a step of estimation
\* or of the update leaves the environment state and the last observation as
\* they were, so that a collection starts from the state and observation the
\* previous one ended with; collection only appends to the trajectory, and the
\* trajectory, advantages and targets stay as they are during the update epochs.
C15_Running == pc \in {"COLLECTING", "ESTIMATING", "UPDATING"}

C15_WrittenInOnePhaseOnly ==
    /\ [][(pc = "COLLECTING" \/ pc = "ESTIMATING") =>
            (runner_state'.train_state = runner_state.train_state)]_vars
    /\ [][(pc = "ESTIMATING" \/ pc = "UPDATING") =>
            /\ runner_state'.env_state = runner_state.env_state
            /\ (runner_state'.last_obs = runner_state.last_obs)]_vars
    /\ [][pc = "COLLECTING" =>
            /\ SubSeq(traj_batch', 1, Len(traj_batch)) = traj_batch
            /\ step_log'[Len(step_log')].env_state = runner_state.env_state
            /\ (step_log'[Len(step_log')].last_obs = runner_state.last_obs)]_vars
    /\ [][pc = "UPDATING" /\ pc' = "UPDATING" =>
            /\ traj_batch' = traj_batch
            /\ estimate' = estimate]_vars
    /\ [](C15_Running =>
            \A t \in DOMAIN traj_batch :
               /\ step_log[t].params = step_log[1].params
               /\ pc # "UPDATING" => step_log[t].params = runner_state.train_state.params)
    /\ [](pc = "UPDATING" =>
            estimate.last_val =
               network_value(step_log[1].params,
                             batchify(runner_state.last_obs, agents, config.NUM_ACTORS)))

\* the second iteration's collection has begun, after gradient steps that
\* changed the parameters, from an environment state other than the reset state
C15_Witness ==
    /\ pc = "COLLECTING"
    /\ update_state.update = 1
    /\ config.NUM_STEPS = 2
    /\ config.NUM_ENVS = 2
    /\ Len(traj_batch) = 1
    /\ Len(grad_log) >= 2
    /\ runner_state.train_state.params > InitParams
    /\ step_log[1].params = runner_state.train_state.params
    /\ step_log[1].env_state # <<0, 0>>

====
